---- MODULE Spec2Model ----
(***************************************************************************)
(* TransactionBuilder of bitcoinjs-lib (src/src/transaction_builder.js).   *)
(*                                                                         *)
(* A behaviour is the life of one Builder.  Init is                        *)
(* `new TransactionBuilder()`; FromTransaction, the static constructor,    *)
(* may replace the newborn Builder by an imported one; AddInput,           *)
(* AddOutput, Sign, Build and BuildIncomplete are the methods.  Every      *)
(* method is a pure operator on a Builder record (the fields of `this`)    *)
(* returning whether the call returned (ok) or threw, and the Builder      *)
(* after the call; a throw keeps whatever the code had already written.    *)
(*                                                                         *)
(* JavaScript values: `undefined` is Undefined, an array is a sequence     *)
(* read at index i+1, an array hole is Hole (skipped by every/forEach/     *)
(* map/filter, read as undefined), a plain object is a function on its     *)
(* keys.  Buffers are byte sequences, a script is [chunks |-> <<..>>].     *)
(***************************************************************************)
EXTENDS Integers, Sequences, FiniteSets, TLC

VARIABLES prevOutMap, prevOutScripts, prevOutTypes, signatures, tx, result

vars == <<prevOutMap, prevOutScripts, prevOutTypes, signatures, tx, result>>

---------------------------------------------------------------------------
(* Bounds of the model *)
MaxIns == 2
MaxOuts == 1
MaxEntries == 1

---------------------------------------------------------------------------
(* JavaScript values *)
Undefined == [undefined |-> TRUE]
Hole == [hole |-> TRUE]
UndefinedType == "undefined"

Max(a, b) == IF a >= b THEN a ELSE b

\* arr[i] of a JavaScript array: a hole or an index past the end reads undefined
ArrayGet(arr, i) ==
  IF i >= 0 /\ i < Len(arr) /\ arr[i + 1] # Hole THEN arr[i + 1] ELSE Undefined

\* arr[i] = v: the array grows to i+1 and the skipped indices are holes
ArraySet(arr, i, v) ==
  [j \in 1..Max(Len(arr), i + 1) |->
     IF j = i + 1 THEN v ELSE IF j <= Len(arr) THEN arr[j] ELSE Hole]

\* obj[k] of a plain object
ObjGet(obj, k) == IF k \in DOMAIN obj THEN obj[k] ELSE Undefined
ObjGetType(obj, k) == IF k \in DOMAIN obj THEN obj[k] ELSE UndefinedType

\* obj[k] = v
ObjSet(obj, k, v) == [j \in (DOMAIN obj) \cup {k} |-> IF j = k THEN v ELSE obj[j]]

\* Array.prototype.reverse
Reverse(s) == [j \in 1..Len(s) |-> s[Len(s) + 1 - j]]

\* the elements every/forEach/map/filter visit: all but the holes
Visited(arr) == {j \in 1..Len(arr) : arr[j] # Hole}

\* Array.prototype.filter(truthy) after map: holes are dropped, order is kept
RECURSIVE Compact(_)
Compact(arr) ==
  IF arr = <<>> THEN <<>>
  ELSE IF Head(arr) = Hole THEN Compact(Tail(arr))
       ELSE <<Head(arr)>> \o Compact(Tail(arr))

\* a & b on unsigned integers
RECURSIVE BitAnd(_, _)
BitAnd(a, b) ==
  IF a = 0 \/ b = 0 THEN 0
  ELSE (a % 2) * (b % 2) + 2 * BitAnd(a \div 2, b \div 2)

---------------------------------------------------------------------------
(* Transaction: hash-type flags *)
SIGHASH_ALL == 1
SIGHASH_SINGLE == 3
SIGHASH_ANYONECANPAY == 128
HashTypeMask == 31

---------------------------------------------------------------------------
(* Collaborators: keys, signature codec, scripts, classifier, assemblers *)

ECPubKey(k) == [Q |-> k]
ECKey(k) == [pub |-> ECPubKey(k)]

\* ECPubKey.fromBuffer / toBuffer
PubKeyFromBuffer(chunk) == [Q |-> chunk.pubkey]
PubKeyToBuffer(pubKey) == [pubkey |-> pubKey.Q]

\* Transaction.prototype.hashForSignature: the digest of (input, scriptCode, hashType)
hashForSignature(index, prevOutScript, hashType) ==
  [inIndex |-> index, scriptCode |-> prevOutScript.chunks, hashType |-> hashType]

\* ECKey.prototype.sign
KeySign(privKey, hash) == [by |-> privKey.pub.Q, hash |-> hash]

\* ECSignature.prototype.toScriptSignature / ECSignature.parseScriptSignature
toScriptSignature(signature, hashType) == [signature |-> signature, hashType |-> hashType]
parseScriptSignature(chunk) == [signature |-> chunk.signature, hashType |-> chunk.hashType]

Script(chunks) == [chunks |-> chunks]
OP(name) == [op |-> name]
NUM(n) == [num |-> n]
IsOp(c) == "op" \in DOMAIN c
IsNum(c) == "num" \in DOMAIN c
IsPubKeyChunk(c) == "pubkey" \in DOMAIN c
IsSigChunk(c) == "signature" \in DOMAIN c
IsScriptBuffer(c) == "buffer" \in DOMAIN c

\* Script.prototype.toBuffer / Script.fromBuffer / Script.prototype.getHash
ScriptToBuffer(script) == [buffer |-> script.chunks]
ScriptFromBuffer(chunk) == [chunks |-> chunk.buffer]
ScriptGetHash(script) == [scriptHash |-> script.chunks]

\* chunks.slice(from, Len + to) for to <= 0, 0-based as in JavaScript
Slice(chunks, from, to) ==
  LET n == Len(chunks) + to IN
  IF n <= from THEN <<>> ELSE [j \in 1..(n - from) |-> chunks[from + j]]

\* scripts.*Output
pubKeyHashOutput(k) ==
  Script(<<OP("OP_DUP"), OP("OP_HASH160"), [pubKeyHash |-> k],
           OP("OP_EQUALVERIFY"), OP("OP_CHECKSIG")>>)
scriptHashOutput(hash) == Script(<<OP("OP_HASH160"), hash, OP("OP_EQUAL")>>)
multisigOutput(m, ks) ==
  Script(<<NUM(m)>> \o [j \in 1..Len(ks) |-> [pubkey |-> ks[j]]]
         \o <<NUM(Len(ks)), OP("OP_CHECKMULTISIG")>>)
\* privKey.pub.getAddress().toOutputScript()
AddressOutputScript(pubKey) == pubKeyHashOutput(pubKey.Q)

\* scripts.classifyOutput
classifyOutput(script) ==
  LET c == script.chunks
      n == Len(c) IN
  IF /\ n = 5 /\ c[1] = OP("OP_DUP") /\ c[2] = OP("OP_HASH160")
     /\ "pubKeyHash" \in DOMAIN c[3]
     /\ c[4] = OP("OP_EQUALVERIFY") /\ c[5] = OP("OP_CHECKSIG")
    THEN "pubkeyhash"
  ELSE IF /\ n = 3 /\ c[1] = OP("OP_HASH160") /\ "scriptHash" \in DOMAIN c[2]
          /\ c[3] = OP("OP_EQUAL")
    THEN "scripthash"
  ELSE IF /\ n >= 4 /\ c[n] = OP("OP_CHECKMULTISIG")
          /\ IsNum(c[1]) /\ IsNum(c[n - 1])
          /\ \A j \in 2..(n - 2) : IsPubKeyChunk(c[j])
          /\ c[n - 1].num = n - 3 /\ c[1].num <= c[n - 1].num
    THEN "multisig"
  ELSE IF n = 2 /\ IsPubKeyChunk(c[1]) /\ c[2] = OP("OP_CHECKSIG")
    THEN "pubkey"
  ELSE "nonstandard"

\* scripts.classifyInput
classifyInput(script) ==
  LET c == script.chunks
      n == Len(c) IN
  IF n = 2 /\ IsSigChunk(c[1]) /\ IsPubKeyChunk(c[2]) THEN "pubkeyhash"
  ELSE IF n >= 2 /\ IsScriptBuffer(c[n]) THEN "scripthash"
  ELSE IF n >= 2 /\ c[1] = OP("OP_0") /\ \A j \in 2..n : IsSigChunk(c[j])
    THEN "multisig"
  ELSE IF n = 1 /\ IsSigChunk(c[1]) THEN "pubkey"
  ELSE "nonstandard"

\* scripts.pubKeyHashInput, pubKeyInput, multisigInput, scriptHashInput
pubKeyHashInput(signature, pubKey) == Script(<<signature, PubKeyToBuffer(pubKey)>>)
pubKeyInput(signature) == Script(<<signature>>)
multisigInput(sigs, redeemScript) == Script(<<OP("OP_0")>> \o sigs)
scriptHashInput(scriptSig, redeemScript) ==
  Script(scriptSig.chunks \o <<ScriptToBuffer(redeemScript)>>)

\* new Transaction(), Transaction.prototype.addInput / addOutput / setInputScript.
\* A Transaction is its inputs, its outputs and obj, which object it is: a copy
\* is told from the object it was copied from by obj alone
NewTransaction == [ins |-> <<>>, outs |-> <<>>, obj |-> "this.tx"]
EmptyScript == Script(<<>>)
TxAddInput(t, hash, index, sequence) ==
  [t EXCEPT !.ins = Append(@, [hash |-> hash, index |-> index,
                               sequence |-> sequence, script |-> EmptyScript])]
TxAddOutput(t, scriptPubKey, value) ==
  [t EXCEPT !.outs = Append(@, [script |-> scriptPubKey, value |-> value])]
TxSetInputScript(t, index, scriptSig) ==
  [t EXCEPT !.ins[index + 1].script = scriptSig]
\* Transaction.prototype.clone: a deep copy, an object of its own
TxClone(t) == [t EXCEPT !.obj = "clone"]

---------------------------------------------------------------------------
(* The Builder *)

\* function TransactionBuilder()
NewBuilder ==
  [prevOutMap |-> {}, prevOutScripts |-> <<>>, prevOutTypes |-> <<>>,
   signatures |-> <<>>, tx |-> NewTransaction]

\* `this`
Self ==
  [prevOutMap |-> prevOutMap, prevOutScripts |-> prevOutScripts,
   prevOutTypes |-> prevOutTypes, signatures |-> signatures, tx |-> tx]

Threw(b) == [ok |-> FALSE, b |-> b, ret |-> Undefined]
Returned(b, ret) == [ok |-> TRUE, b |-> b, ret |-> ret]

\* the coinbase test of extractSignature and fromTransaction
IsCoinbaseHash(hash) == \A j \in 1..Len(hash) : hash[j] = 0


\* a guard that lets every input through
InputGuardDropped(sigs) == TRUE

\* the guard of addInput: this.signatures.every(input.hashType & SIGHASH_ANYONECANPAY);
\* an element that is undefined (not a hole) throws a TypeError
InputGuard(sigs) ==
  \A j \in Visited(sigs) :
    sigs[j] # Undefined /\ BitAnd(sigs[j].hashType, SIGHASH_ANYONECANPAY) # 0

\* a guard that compares with SIGHASH_ALL where the code compares with SIGHASH_SINGLE
OutputGuardWrongFlag(sigs) ==
  \A j \in Visited(sigs) :
    sigs[j] # Undefined /\ BitAnd(sigs[j].hashType, HashTypeMask) = SIGHASH_ALL

\* a guard that compares the whole hash type, flags included, with SIGHASH_SINGLE
OutputGuardExact(sigs) ==
  \A j \in Visited(sigs) :
    sigs[j] # Undefined /\ sigs[j].hashType = SIGHASH_SINGLE

\* the guard of addOutput: every((hashType & 0x1f) === SIGHASH_SINGLE)
OutputGuard(sigs) ==
  \A j \in Visited(sigs) :
    sigs[j] # Undefined /\ BitAnd(sigs[j].hashType, HashTypeMask) = SIGHASH_SINGLE

\* prevOutHash.toString('hex') + ':' + index
PrevOutKey(prevOutHash, index) == <<prevOutHash, index>>

\* a registry test that never finds the previous output
AlreadyInputNever(b, prevOut) == FALSE

\* prevOut in this.prevOutMap
AlreadyInput(b, prevOut) == prevOut \in b.prevOutMap

\* an addInput that does not record the previous output in the registry
AppendedUnregistered(b, prevOutHash, index, sequence, prevOutScript, prevOutType) ==
  [b EXCEPT !.tx = TxAddInput(@, prevOutHash, index, sequence),
            !.prevOutScripts = ObjSet(@, Len(b.tx.ins), prevOutScript),
            !.prevOutTypes = ObjSet(@, Len(b.tx.ins), prevOutType)]

\* addInput, lines 147-150: the Builder once the input is added at vout
Appended(b, prevOutHash, index, sequence, prevOutScript, prevOutType) ==
  [b EXCEPT !.tx = TxAddInput(@, prevOutHash, index, sequence),
            !.prevOutMap = @ \cup {PrevOutKey(prevOutHash, index)},
            !.prevOutScripts = ObjSet(@, Len(b.tx.ins), prevOutScript),
            !.prevOutTypes = ObjSet(@, Len(b.tx.ins), prevOutType)]

\* TransactionBuilder.prototype.addInput.  prevTx is [hex |-> bytes] (a
\* string), [id |-> hash, outs |-> <<..>>] (a Transaction) or [buffer |-> bytes]
addInput(b, prevTx, index, sequence, prevOutScriptArg) ==
  LET isString == "hex" \in DOMAIN prevTx
      isTx == "outs" \in DOMAIN prevTx
      prevOutHash == IF isString THEN Reverse(prevTx.hex)
                     ELSE IF isTx THEN prevTx.id ELSE prevTx.buffer
      prevOutScript == IF isTx THEN prevTx.outs[index + 1].script ELSE prevOutScriptArg
      prevOutType == IF prevOutScript # Undefined THEN classifyOutput(prevOutScript)
                     ELSE UndefinedType
      prevOut == PrevOutKey(prevOutHash, index)
      vout == Len(b.tx.ins)
  IN
  IF isTx /\ ~(index >= 0 /\ index < Len(prevTx.outs)) THEN Threw(b)
  ELSE IF prevOutScript # Undefined /\ prevOutType = "nonstandard" THEN Threw(b)
  ELSE IF ~InputGuard(b.signatures) THEN Threw(b)
  ELSE IF AlreadyInput(b, prevOut) THEN Threw(b)
  ELSE Returned(Appended(b, prevOutHash, index, sequence, prevOutScript, prevOutType),
                vout)

\* TransactionBuilder.prototype.addOutput
addOutput(b, scriptPubKey, value) ==
  IF ~OutputGuard(b.signatures) THEN Threw(b)
  ELSE Returned([b EXCEPT !.tx = TxAddOutput(@, scriptPubKey, value)], Len(b.tx.outs))

\* sign, line 225: the index check
SignIndexOk(b, index) == Len(b.tx.ins) >= index

\* an entry that forgets the keys of the redeem script
NewEntryPubKeysOwnKey(privKey, redeemScript, scriptType) == <<privKey.pub>>

\* sign, lines 258-265: the public keys of a new entry
NewEntryPubKeys(privKey, redeemScript, scriptType) ==
  IF redeemScript # Undefined /\ scriptType = "multisig"
  THEN LET ks == Slice(redeemScript.chunks, 1, -2) IN
       [j \in 1..Len(ks) |-> PubKeyFromBuffer(ks[j])]
  ELSE <<privKey.pub>>

\* a slot choice that appends: the first slot after the stored signatures, for
\* a key that is among the public keys
MatchingSlotAppend(input, privKey) ==
  IF \E j \in 1..Len(input.pubKeys) : input.pubKeys[j].Q = privKey.pub.Q
  THEN Len(input.signatures) + 1 ELSE 0

\* sign, lines 286-293: pubKeys.some(...): the first slot whose key is the
\* signing key, 0 when there is none
MatchingSlot(input, privKey) ==
  LET m == {j \in 1..Len(input.pubKeys) : input.pubKeys[j].Q = privKey.pub.Q} IN
  IF m = {} THEN 0 ELSE CHOOSE j \in m : \A k \in m : j <= k

\* a slot test that never finds a signature
SlotTakenNever(input, slot) == FALSE

\* sign, line 289: input.signatures[i] of the matching slot
SlotTaken(input, slot) == ArrayGet(input.signatures, slot - 1) # Undefined

\* sign, lines 229, 234 and 247: prevOutType = this.prevOutTypes[index] ||
\* 'scripthash' with a redeem script, || 'pubkeyhash' without
ResolvedPrevOutType(b, index, redeemScript) ==
  LET cachedType == ObjGetType(b.prevOutTypes, index) IN
  IF cachedType # UndefinedType THEN cachedType
  ELSE IF redeemScript # Undefined THEN "scripthash" ELSE "pubkeyhash"

\* rules that let a pay-to-script-hash redeem script through
RedeemRulesNesting(redeemScript, prevOutType, scriptType) ==
  IF redeemScript # Undefined
  THEN prevOutType = "scripthash" /\ scriptType # "nonstandard"
  ELSE prevOutType # "scripthash"

\* sign, lines 236-241 and 249: the asserts on the redeem script and the
\* previous-output kind
RedeemRules(redeemScript, prevOutType, scriptType) ==
  IF redeemScript # Undefined
  THEN prevOutType = "scripthash" /\ scriptType \notin {"scripthash", "nonstandard"}
  ELSE prevOutType # "scripthash"

\* rules of signing again that do not compare the hash type
ResignRulesAnyHashType(input, scriptType, hashType, redeemScript) ==
  /\ scriptType = "multisig"
  /\ input.redeemScript = redeemScript

\* sign, lines 280-282: the asserts of a call that finds an entry
ResignRules(input, scriptType, hashType, redeemScript) ==
  /\ scriptType = "multisig"
  /\ input.hashType = hashType
  /\ input.redeemScript = redeemScript

\* TransactionBuilder.prototype.sign.  hashTypeArg 0 is an omitted hashType
sign(b, index, privKey, redeemScript, hashTypeArg) ==
  LET hashType == IF hashTypeArg = 0 THEN SIGHASH_ALL ELSE hashTypeArg
      cachedScript == ObjGet(b.prevOutScripts, index)
      hasRedeem == redeemScript # Undefined
      prevOutScript ==
        IF cachedScript # Undefined THEN cachedScript
        ELSE IF hasRedeem THEN scriptHashOutput(ScriptGetHash(redeemScript))
        ELSE AddressOutputScript(privKey.pub)
      prevOutType == ResolvedPrevOutType(b, index, redeemScript)
      scriptType == IF hasRedeem THEN classifyOutput(redeemScript) ELSE prevOutType
      hash == IF hasRedeem THEN hashForSignature(index, redeemScript, hashType)
              ELSE hashForSignature(index, prevOutScript, hashType)
      existing == ArrayGet(b.signatures, index)
      created == [hashType |-> hashType,
                  pubKeys |-> NewEntryPubKeys(privKey, redeemScript, scriptType),
                  redeemScript |-> redeemScript,
                  scriptType |-> scriptType,
                  signatures |-> <<>>]
      input == IF existing = Undefined THEN created ELSE existing
      \* the Builder once lines 275-277 have run
      b1 == IF existing = Undefined
            THEN [b EXCEPT !.signatures = ArraySet(@, index, created),
                           !.prevOutScripts = ObjSet(@, index, prevOutScript),
                           !.prevOutTypes = ObjSet(@, index, prevOutType)]
            ELSE b
      slot == MatchingSlot(input, privKey)
  IN
  IF ~SignIndexOk(b, index) THEN Threw(b)
  ELSE IF ~RedeemRules(redeemScript, prevOutType, scriptType) THEN Threw(b)
  ELSE IF existing # Undefined /\ ~ResignRules(input, scriptType, hashType, redeemScript)
    THEN Threw(b)
  ELSE IF slot = 0 THEN Threw(b1)
  ELSE IF SlotTaken(input, slot) THEN Threw(b1)
  ELSE Returned([b1 EXCEPT !.signatures[index + 1].signatures =
                   ArraySet(@, slot - 1, KeySign(privKey, hash))], Undefined)


\* function extractSignature(txIn)
extractSignature(txIn) ==
  LET c == txIn.script.chunks
      outerType == classifyInput(txIn.script)
      isP2SH == outerType = "scripthash"
      redeemScript == IF isP2SH THEN ScriptFromBuffer(c[Len(c)]) ELSE Undefined
      scriptSig == IF isP2SH THEN Script(Slice(c, 0, -1)) ELSE txIn.script
      scriptType == IF isP2SH THEN classifyInput(scriptSig) ELSE outerType
      s == scriptSig.chunks
      sigChunks == Slice(s, 1, 0)
      parsed == [j \in 1..Len(sigChunks) |-> parseScriptSignature(sigChunks[j])]
      entry(hashType, pubKeys, sigs) ==
        [hashType |-> hashType, pubKeys |-> pubKeys, redeemScript |-> redeemScript,
         scriptType |-> scriptType, signatures |-> sigs]
  IN
  IF IsCoinbaseHash(txIn.hash) THEN Threw(Undefined)
  ELSE IF isP2SH /\ classifyOutput(redeemScript) # scriptType THEN Threw(Undefined)
  ELSE IF scriptType = "pubkeyhash"
    THEN Returned(Undefined,
           entry(parseScriptSignature(s[1]).hashType,
                 <<PubKeyFromBuffer(s[2])>>,
                 <<parseScriptSignature(s[1]).signature>>))
  ELSE IF scriptType = "pubkey"
    THEN Returned(Undefined,
           entry(parseScriptSignature(s[1]).hashType,
                 IF redeemScript # Undefined
                   THEN <<PubKeyFromBuffer(redeemScript.chunks[1])>> ELSE <<>>,
                 <<parseScriptSignature(s[1]).signature>>))
  ELSE IF scriptType = "multisig"
    THEN Returned(Undefined,
           entry(parsed[1].hashType,
                 IF redeemScript # Undefined
                   THEN LET ks == Slice(redeemScript.chunks, 1, -2) IN
                        [j \in 1..Len(ks) |-> PubKeyFromBuffer(ks[j])]
                   ELSE <<>>,
                 [j \in 1..Len(parsed) |-> parsed[j].signature]))
  ELSE Threw(Undefined)

\* fromTransaction, lines 89-91: transaction.ins.forEach(txb.addInput(...))
RECURSIVE ReplayInputs(_, _)
ReplayInputs(b, ins) ==
  IF ins = <<>> THEN Returned(b, Undefined)
  ELSE LET r == addInput(b, [buffer |-> Head(ins).hash], Head(ins).index,
                         Head(ins).sequence, Undefined) IN
       IF r.ok THEN ReplayInputs(r.b, Tail(ins)) ELSE r

\* fromTransaction, lines 94-96: transaction.outs.forEach(txb.addOutput(...))
RECURSIVE ReplayOutputs(_, _)
ReplayOutputs(b, outs) ==
  IF outs = <<>> THEN Returned(b, Undefined)
  ELSE LET r == addOutput(b, Head(outs).script, Head(outs).value) IN
       IF r.ok THEN ReplayOutputs(r.b, Tail(outs)) ELSE r

\* an import that stores an entry without signatures for an input whose script
\* is empty
ImportSignaturePlaceholder(txIn) ==
  IF IsCoinbaseHash(txIn.hash) THEN Threw(Undefined)
  ELSE IF Len(txIn.script.chunks) = 0
    THEN Returned(Undefined, [hashType |-> SIGHASH_ALL, pubKeys |-> <<>>,
                              redeemScript |-> Undefined, scriptType |-> "pubkeyhash",
                              signatures |-> <<>>])
  ELSE extractSignature(txIn)

\* fromTransaction, lines 99-109: the callback of transaction.ins.map
ImportSignature(txIn) ==
  IF IsCoinbaseHash(txIn.hash) THEN Threw(Undefined)
  ELSE IF Len(txIn.script.chunks) = 0 THEN Returned(Undefined, Undefined)
  ELSE extractSignature(txIn)

\* TransactionBuilder.fromTransaction
fromTransaction(transaction) ==
  LET ri == ReplayInputs(NewBuilder, transaction.ins)
      ro == ReplayOutputs(ri.b, transaction.outs)
      n == Len(transaction.ins)
  IN
  IF ~ri.ok THEN Threw(Undefined)
  ELSE IF ~ro.ok THEN Threw(Undefined)
  ELSE IF \E j \in 1..n : ~ImportSignature(transaction.ins[j]).ok THEN Threw(Undefined)
  ELSE Returned(Undefined, [ro.b EXCEPT !.signatures =
                   [j \in 1..n |-> ImportSignature(transaction.ins[j]).ret]])

\* preconditions that also ask every MultiSig entry for as many signatures as
\* its redeem script requires
StrictPreconditionsThreshold(b) ==
  /\ Len(b.tx.ins) > 0
  /\ Len(b.tx.outs) > 0
  /\ Len(b.signatures) > 0
  /\ Len(b.signatures) = Len(b.tx.ins)
  /\ \A j \in 1..Len(b.signatures) :
       (/\ b.signatures[j] \notin {Hole, Undefined}
        /\ b.signatures[j].scriptType = "multisig"
        /\ b.signatures[j].redeemScript # Undefined)
       => Len(Compact(b.signatures[j].signatures)) >= b.signatures[j].redeemScript.chunks[1].num

\* __build, lines 171-177: the preconditions of build()
StrictPreconditions(b) ==
  /\ Len(b.tx.ins) > 0
  /\ Len(b.tx.outs) > 0
  /\ Len(b.signatures) > 0
  /\ Len(b.signatures) = Len(b.tx.ins)

\* __build, lines 183-216: the script of one entry of this.signatures
AssembleInput(input, allowIncomplete) ==
  LET sigs == Compact([j \in 1..Len(input.signatures) |->
                         IF input.signatures[j] = Hole THEN Hole
                         ELSE toScriptSignature(input.signatures[j], input.hashType)])
      inner ==
        IF input.scriptType = "pubkeyhash"
          THEN pubKeyHashInput(sigs[1], input.pubKeys[1])
        ELSE IF input.scriptType = "multisig"
          THEN multisigInput(sigs, IF allowIncomplete THEN Undefined
                                   ELSE input.redeemScript)
        ELSE pubKeyInput(sigs[1])
  IN
  IF input = Undefined THEN Threw(Undefined)
  ELSE IF input.scriptType \notin {"pubkeyhash", "multisig", "pubkey"} THEN Threw(Undefined)
  \* signatures[0] and pubKeys[0] must exist for the single-signature kinds
  ELSE IF input.scriptType = "pubkeyhash" /\ (sigs = <<>> \/ input.pubKeys = <<>>)
    THEN Threw(Undefined)
  ELSE IF input.scriptType = "pubkey" /\ sigs = <<>> THEN Threw(Undefined)
  ELSE Returned(Undefined,
                IF input.redeemScript # Undefined
                THEN scriptHashInput(inner, input.redeemScript) ELSE inner)

\* __build, lines 182-219: this.signatures.forEach over the elements from j on,
\* writing the scripts into the transaction t; ret is t as far as it was written
RECURSIVE AssembleFrom(_, _, _, _)
AssembleFrom(b, t, j, allowIncomplete) ==
  IF j > Len(b.signatures) THEN Returned(b, t)
  ELSE IF b.signatures[j] = Hole THEN AssembleFrom(b, t, j + 1, allowIncomplete)
  ELSE LET a == AssembleInput(b.signatures[j], allowIncomplete) IN
       IF ~a.ok THEN [ok |-> FALSE, b |-> b, ret |-> t]
       \* tx.setInputScript on an input that does not exist
       ELSE IF j > Len(t.ins) THEN [ok |-> FALSE, b |-> b, ret |-> t]
       ELSE AssembleFrom(b, TxSetInputScript(t, j - 1, a.ret), j + 1, allowIncomplete)

\* a __build that writes the scripts into this.tx itself
WorkingCopyShared(b) == b.tx

\* __build, line 179: var tx = this.tx.clone()
WorkingCopy(b) == TxClone(b.tx)

\* the Builder once scripts were written into the transaction t: this.tx has
\* them only if t is the object this.tx
InstalledIn(b, t) == IF t.obj = b.tx.obj THEN [b EXCEPT !.tx = t] ELSE b

\* TransactionBuilder.prototype.__build
build(b, allowIncomplete) ==
  IF ~allowIncomplete /\ ~StrictPreconditions(b) THEN Threw(b)
  ELSE LET a == AssembleFrom(b, WorkingCopy(b), 1, allowIncomplete) IN
       IF a.ok THEN Returned(InstalledIn(b, a.ret), a.ret)
       ELSE Threw(InstalledIn(b, a.ret))

---------------------------------------------------------------------------
(* The calls of the model: the arguments the actions draw from *)
Zero == <<0, 0>>
H1 == <<1, 2>>
H2 == <<2, 1>>

RedeemMultisig == multisigOutput(2, <<1, 2, 3>>)
NonStandardScript == Script(<<OP("OP_RETURN")>>)
P2SHMultisig == scriptHashOutput(ScriptGetHash(RedeemMultisig))

\* a prior transaction whose hash is H1, with one output
PriorTx == [id |-> H1, outs |-> <<[script |-> pubKeyHashOutput(1), value |-> 1]>>]

\* references of addInput: raw hashes, a hex id (the bytes of H1 reversed) and a
\* transaction
References == {[buffer |-> Zero], [buffer |-> H1], [hex |-> H2], PriorTx}
Indexes == {0}
KnownScripts == {Undefined, NonStandardScript}
OutputScripts == {pubKeyHashOutput(2)}
RedeemScripts == {Undefined, RedeemMultisig, P2SHMultisig, NonStandardScript}
Keys == 1..4
\* hash types of sign: omitted (SIGHASH_ALL) and SINGLE|ANYONECANPAY
HashTypes == {0, SIGHASH_SINGLE + SIGHASH_ANYONECANPAY}
\* who signs with what redeem script and hash type: key 1 alone with either
\* hash type, cosigners 1 and 2 of RedeemMultisig, key 4, which is not one of
\* its keys, and key 1 with the redeem scripts sign refuses
Signers ==
  {<<1, Undefined, 0>>, <<1, Undefined, SIGHASH_SINGLE + SIGHASH_ANYONECANPAY>>,
   <<1, RedeemMultisig, 0>>, <<2, RedeemMultisig, 0>>, <<4, RedeemMultisig, 0>>,
   <<1, P2SHMultisig, 0>>, <<1, NonStandardScript, 0>>}

\* a signature chunk as found in an existing unlocking script
SigChunk(k, script, hashType) ==
  toScriptSignature(KeySign(ECKey(k), hashForSignature(0, script, hashType)), hashType)

TxIn(hash, index, script) ==
  [hash |-> hash, index |-> index, sequence |-> 0, script |-> script]

\* inputs of the transactions to import: unsigned, pay-to-pubkey-hash signed by
\* key 1 (SINGLE), 2-of-3 multisig signed by cosigners 2 and 3 (ALL|ANYONECANPAY),
\* and a coinbase input
ImportIns ==
  { TxIn(H1, 0, EmptyScript),
    TxIn(H2, 0, pubKeyHashInput(SigChunk(1, pubKeyHashOutput(1), SIGHASH_SINGLE),
                                ECPubKey(1))),
    TxIn(H1, 1, scriptHashInput(
                  multisigInput(<<SigChunk(2, RedeemMultisig, SIGHASH_ALL + SIGHASH_ANYONECANPAY),
                                  SigChunk(3, RedeemMultisig, SIGHASH_ALL + SIGHASH_ANYONECANPAY)>>,
                                RedeemMultisig),
                  RedeemMultisig)),
    TxIn(Zero, 0, EmptyScript) }

ImportOuts == {[script |-> pubKeyHashOutput(2), value |-> 1]}

ImportTxs ==
  { [ins |-> i, outs |-> o] :
      i \in UNION {[1..n -> ImportIns] : n \in 0..MaxIns},
      o \in UNION {[1..n -> ImportOuts] : n \in 0..MaxOuts} }

---------------------------------------------------------------------------
(* The state machine *)

\* what the last call was, whether it returned or threw, and what it returned
Outcome(op, r) == [op |-> op, ok |-> r.ok, ret |-> r.ret]

Init ==
  /\ prevOutMap = NewBuilder.prevOutMap
  /\ prevOutScripts = NewBuilder.prevOutScripts
  /\ prevOutTypes = NewBuilder.prevOutTypes
  /\ signatures = NewBuilder.signatures
  /\ tx = NewBuilder.tx
  /\ result = Outcome("new", Returned(NewBuilder, Undefined))

\* the Builder after a call that returned or threw
Becomes(b) ==
  /\ prevOutMap' = b.prevOutMap
  /\ prevOutScripts' = b.prevOutScripts
  /\ prevOutTypes' = b.prevOutTypes
  /\ signatures' = b.signatures
  /\ tx' = b.tx

AddInput ==
  /\ Len(tx.ins) < MaxIns
  /\ \E prevTx \in References, index \in Indexes, prevOutScript \in KnownScripts :
       LET r == addInput(Self, prevTx, index, 0, prevOutScript) IN
       /\ Becomes(r.b)
       /\ result' = Outcome("addInput", r)

AddOutput ==
  /\ Len(tx.outs) < MaxOuts
  /\ \E scriptPubKey \in OutputScripts :
       LET r == addOutput(Self, scriptPubKey, 1) IN
       /\ Becomes(r.b)
       /\ result' = Outcome("addOutput", r)

\* the indexes that hold signing metadata
EntryIndexes(sigs) == {j \in 1..Len(sigs) : sigs[j] \notin {Hole, Undefined}}

Sign ==
  \E index \in 0..MaxIns, signer \in Signers :
    \* a call that would add an element to this.signatures is explored only
    \* while fewer than MaxEntries entries exist
    /\ \/ index < Len(signatures) /\ signatures[index + 1] # Hole
       \/ Cardinality(EntryIndexes(signatures)) < MaxEntries
    /\ LET r == sign(Self, index, ECKey(signer[1]), signer[2], signer[3]) IN
       /\ Becomes(r.b)
       /\ result' = Outcome("sign", r)

Build ==
  LET r == build(Self, FALSE) IN
  /\ Becomes(r.b)
  /\ result' = Outcome("build", r)

BuildIncomplete ==
  LET r == build(Self, TRUE) IN
  /\ Becomes(r.b)
  /\ result' = Outcome("buildIncomplete", r)

FromTransaction ==
  /\ result.op = "new"
  /\ \E transaction \in ImportTxs :
       LET r == fromTransaction(transaction) IN
       /\ Becomes(IF r.ok THEN r.ret ELSE Self)
       /\ result' = [op |-> "fromTransaction", ok |-> r.ok, ret |-> Undefined]

Next == AddInput \/ AddOutput \/ Sign \/ Build \/ BuildIncomplete \/ FromTransaction

Spec == Init /\ [][Next]_vars

---------------------------------------------------------------------------
(* Properties *)

\* the calls the properties range over
SignIndexes == 0..MaxIns
SignArgs == SignIndexes \X Keys \X RedeemScripts \X HashTypes
SignCall(a) == sign(Self, a[1], ECKey(a[2]), a[3], a[4])
AddInputArgs == References \X Indexes \X KnownScripts
AddInputCall(a) == addInput(Self, a[1], a[2], 0, a[3])

\* the signatures an entry holds, as slot-signature pairs
SlotsOf(input) ==
  {<<i, input.signatures[i]>> : i \in {k \in 1..Len(input.signatures) : input.signatures[k] # Hole}}
HasSignature(input) == SlotsOf(input) # {}

\* all stored signatures of a metadata table
StoredSignatures(sigs) ==
  UNION {{<<j, p[1], p[2]>> : p \in SlotsOf(sigs[j])} : j \in EntryIndexes(sigs)}

\* C1: every sign call that fails leaves the Builder (metadata table, cached
\* previous-output scripts and kinds, registry, inputs and outputs) as it was
C1_SignAtomic ==
  \A a \in SignArgs : LET r == SignCall(a) IN ~r.ok => r.b = Self

\* C2: in every entry, a signature sits at slot i only if the key pubKeys[i]
\* made it
C2_SlotAlignment ==
  \A j \in EntryIndexes(signatures) :
    \A p \in SlotsOf(signatures[j]) :
      /\ p[1] <= Len(signatures[j].pubKeys)
      /\ p[2].by = signatures[j].pubKeys[p[1]].Q

\* C3: build() succeeds only if there is an input, an output, and every input
\* index has a signing-metadata entry (as many entries as inputs)
C3_StrictCompleteness ==
  build(Self, FALSE).ok =>
    /\ Len(tx.ins) > 0
    /\ Len(tx.outs) > 0
    /\ EntryIndexes(signatures) = 1..Len(tx.ins)

\* C4: addInput with an all-zero hash fails, and no input of the Builder has an
\* all-zero previous-output hash
C4_CoinbaseRejected ==
  /\ \A a \in AddInputArgs :
       ("buffer" \in DOMAIN a[1] /\ IsCoinbaseHash(a[1].buffer)) => ~AddInputCall(a).ok
  /\ \A j \in 1..Len(tx.ins) : ~IsCoinbaseHash(tx.ins[j].hash)

\* some stored signature's hash type lacks SIGHASH_ANYONECANPAY
SignedWithoutAnyoneCanPay ==
  \E j \in EntryIndexes(signatures) :
    /\ HasSignature(signatures[j])
    /\ BitAnd(signatures[j].hashType, SIGHASH_ANYONECANPAY) = 0

\* C5: while some input's metadata carries a signature whose hash type lacks
\* ANYONECANPAY, every addInput call fails and the number of inputs stays
C5_InputGuard ==
  SignedWithoutAnyoneCanPay =>
    \A a \in AddInputArgs :
      LET r == AddInputCall(a) IN
      ~r.ok /\ Len(r.b.tx.ins) = Len(tx.ins)

C5_Witness ==
  /\ SignedWithoutAnyoneCanPay
  /\ Len(tx.ins) > 0
  /\ result.op = "addInput" /\ ~result.ok

\* some stored signature's hash type, without the ANYONECANPAY flag, is not SINGLE
SignedNotSingle ==
  \E j \in EntryIndexes(signatures) :
    /\ HasSignature(signatures[j])
    /\ BitAnd(signatures[j].hashType, HashTypeMask) # SIGHASH_SINGLE

\* C6: while some input's metadata carries a signature whose hash type (ALL or
\* NONE, with or without ANYONECANPAY) is not SINGLE, every addOutput call
\* fails and the number of outputs stays
C6_OutputGuard ==
  SignedNotSingle =>
    \A scriptPubKey \in OutputScripts :
      LET r == addOutput(Self, scriptPubKey, 1) IN
      ~r.ok /\ Len(r.b.tx.outs) = Len(tx.outs)

C6_Witness ==
  /\ SignedNotSingle
  /\ result.op = "addOutput" /\ ~result.ok

\* the (hash, index) pair an input references
PrevOutOf(txIn) == <<txIn.hash, txIn.index>>

\* C7: no two inputs reference the same (hash, index) pair; an addInput call
\* never adds an input whose pair an earlier input has, whether the reference
\* is a hex id, a raw hash or a prior transaction
C7_Uniqueness ==
  /\ \A i, j \in 1..Len(tx.ins) : i # j => PrevOutOf(tx.ins[i]) # PrevOutOf(tx.ins[j])
  /\ \A a \in AddInputArgs :
       LET r == AddInputCall(a) IN
       r.ok =>
         \A j \in 1..Len(tx.ins) :
           PrevOutOf(r.b.tx.ins[Len(tx.ins) + 1]) # PrevOutOf(tx.ins[j])
  /\ (\E j \in 1..Len(tx.ins) : PrevOutOf(tx.ins[j]) = <<H1, 0>>) =>
       /\ ~addInput(Self, [hex |-> H2], 0, 0, Undefined).ok
       /\ ~addInput(Self, [buffer |-> H1], 0, 0, Undefined).ok
       /\ ~addInput(Self, PriorTx, 0, 0, Undefined).ok

C7_Witness ==
  /\ \E j \in 1..Len(tx.ins) : PrevOutOf(tx.ins[j]) = <<H1, 0>>
  /\ signatures = <<>>
  /\ result.op = "addInput" /\ ~result.ok

\* a MultiSig entry with a filled slot
MultiSigSigned(sigs, j) ==
  /\ j \in EntryIndexes(sigs)
  /\ sigs[j].scriptType = "multisig"
  /\ HasSignature(sigs[j])

\* every sign call on a MultiSig input with the key of a filled slot fails
C8_ResignFails ==
  \A j \in 1..Len(signatures) :
    MultiSigSigned(signatures, j) =>
      \A p \in SlotsOf(signatures[j]) :
        p[1] <= Len(signatures[j].pubKeys) =>
          \A redeemScript \in RedeemScripts, hashType \in HashTypes \cup {signatures[j].hashType} :
            ~sign(Self, j - 1, [pub |-> signatures[j].pubKeys[p[1]]], redeemScript, hashType).ok

\* a step keeps every stored signature of a MultiSig input in its slot
C8_SlotsKept ==
  \A j \in 1..Len(signatures) :
    MultiSigSigned(signatures, j) =>
      /\ j \in EntryIndexes(signatures')
      /\ SlotsOf(signatures[j]) \subseteq SlotsOf(signatures'[j])

\* C8: once a slot of a MultiSig input is filled, every later sign call on that
\* input with the slot's key fails, and no later operation replaces or removes
\* the stored signature
C8_DuplicateSignature == [](C8_ResignFails) /\ [][C8_SlotsKept]_vars

C8_Witness ==
  /\ \E j \in 1..Len(signatures) :
       /\ MultiSigSigned(signatures, j)
       /\ \E p \in SlotsOf(signatures[j]) : p[2].by = signatures[j].pubKeys[p[1]].Q
  /\ result.op = "sign" /\ ~result.ok

\* the public keys authorised for a sign call: those of the existing entry, else
\* those of a multisig redeem script, else the signing key's own
AuthorisedKeys(index, k, redeemScript) ==
  LET existing == ArrayGet(signatures, index) IN
  IF existing # Undefined
    THEN {existing.pubKeys[i].Q : i \in 1..Len(existing.pubKeys)}
  ELSE IF redeemScript # Undefined /\ classifyOutput(redeemScript) = "multisig"
    THEN {redeemScript.chunks[i].pubkey : i \in 2..(Len(redeemScript.chunks) - 2)}
  ELSE {k}

\* C9: a sign call whose key is not among the authorised public keys fails and
\* stores no signature
C9_Authorization ==
  \A a \in SignArgs :
    a[2] \notin AuthorisedKeys(a[1], a[2], a[3]) =>
      LET r == SignCall(a) IN
      ~r.ok /\ StoredSignatures(r.b.signatures) = StoredSignatures(signatures)

\* a MultiSig entry without signatures: a first sign call by a key that is not
\* in the redeem script has failed
C9_Witness ==
  /\ \E j \in EntryIndexes(signatures) :
       /\ signatures[j].scriptType = "multisig"
       /\ ~HasSignature(signatures[j])
       /\ j <= Len(tx.ins)
  /\ result.op = "sign" /\ ~result.ok

\* C10: sign is rejected whenever index is not the index of an existing input,
\* and metadata and cached scripts exist only at indexes of existing inputs
C10_IndexBounds ==
  /\ \A a \in SignArgs : a[1] >= Len(tx.ins) => ~SignCall(a).ok
  /\ \A j \in EntryIndexes(signatures) : j <= Len(tx.ins)
  /\ \A k \in DOMAIN prevOutScripts : k < Len(tx.ins)
  /\ \A k \in DOMAIN prevOutTypes : k < Len(tx.ins)

\* the inputs of a transaction all have an empty unlocking script
AllScriptsEmpty(t) == \A j \in 1..Len(t.ins) : t.ins[j].script = EmptyScript

\* C11: in every state without signing-metadata entries (a fresh Builder, one
\* with only inputs and outputs, or one imported from a transaction whose
\* inputs all have empty unlocking scripts), build() fails and
\* buildIncomplete() succeeds and returns a transaction whose inputs all have
\* an empty unlocking script
C11_CompletenessGate ==
  EntryIndexes(signatures) = {} =>
    /\ ~build(Self, FALSE).ok
    /\ LET r == build(Self, TRUE) IN r.ok /\ AllScriptsEmpty(r.ret)

\* what a caller holding the transaction t reads in it once the Builder is b:
\* the Builder's skeleton if t is the object this.tx, else t as it was returned
ReadLater(t, b) == IF t.obj = b.tx.obj THEN b.tx ELSE t

Finalizers == {"build", "buildIncomplete"}

\* build() and buildIncomplete(), returning or throwing, leave the Builder as
\* it was
C12_BuilderKept ==
  \A allowIncomplete \in BOOLEAN : build(Self, allowIncomplete).b = Self

\* a step after a build that returned leaves the returned transaction as it
\* was returned
C12_SnapshotKept ==
  (result.op \in Finalizers /\ result.ok) => ReadLater(result.ret, Self') = result.ret

\* C12: build() and buildIncomplete(), whether they succeed or fail, leave the
\* Builder's inputs, outputs, input scripts, registry, cached classifications
\* and signing metadata unchanged, and a transaction a build returned is not
\* changed by a later addInput, addOutput, sign or build on the same Builder
C12_FinalizeFrame == [](C12_BuilderKept) /\ [][C12_SnapshotKept]_vars

\* build() has returned a transaction with a script in its first input, and the
\* Builder's own first input is still without script
C12_Witness ==
  /\ result.op = "build" /\ result.ok
  /\ result.ret.ins[1].script # EmptyScript
  /\ tx.ins[1].script = EmptyScript

\* the hash type a sign call signs with: SIGHASH_ALL when it is omitted
Supplied(hashTypeArg) == IF hashTypeArg = 0 THEN SIGHASH_ALL ELSE hashTypeArg

\* a sign call on an input that has an entry succeeds only if the entry's kind
\* is MultiSig and the call's hash type and redeem script are the entry's
C13_ResignChecked ==
  \A j \in EntryIndexes(signatures) :
    \A k \in Keys, redeemScript \in RedeemScripts,
       hashType \in HashTypes \cup {signatures[j].hashType} :
      sign(Self, j - 1, ECKey(k), redeemScript, hashType).ok =>
        /\ signatures[j].scriptType = "multisig"
        /\ signatures[j].hashType = Supplied(hashType)
        /\ signatures[j].redeemScript = redeemScript

\* a step keeps every entry and its hashType, scriptType, redeemScript and pubKeys
C13_EntryKept ==
  \A j \in EntryIndexes(signatures) :
    /\ j \in EntryIndexes(signatures')
    /\ signatures'[j].hashType = signatures[j].hashType
    /\ signatures'[j].scriptType = signatures[j].scriptType
    /\ signatures'[j].redeemScript = signatures[j].redeemScript
    /\ signatures'[j].pubKeys = signatures[j].pubKeys

\* C13: when an input has a signing-metadata entry, a further sign call on it
\* fails unless the script kind is MultiSig, the supplied hash type is the
\* stored one and the supplied redeem script is the stored one; the hashType,
\* scriptKind, redeemScript and pubKeys of an entry never change
C13_Resigning == [](C13_ResignChecked) /\ [][C13_EntryKept]_vars

\* a second cosigner has signed an entry the first cosigner's call created
C13_Witness ==
  /\ result.op = "sign" /\ result.ok
  /\ \E j \in EntryIndexes(signatures) :
       /\ signatures[j].scriptType = "multisig"
       /\ {p[2].by : p \in SlotsOf(signatures[j])} = {1, 2}

\* the transactions with two inputs of which exactly one has an empty unlocking
\* script, whose import gave the Builder of this state
ImportedOneSigned ==
  IF result.op = "fromTransaction" /\ result.ok
  THEN {t \in ImportTxs :
          /\ Len(t.ins) = 2
          /\ Cardinality({j \in 1..2 : t.ins[j].script = EmptyScript}) = 1
          /\ fromTransaction(t) = Returned(Undefined, Self)}
  ELSE {}

\* after the import of t: an entry at the signed index only; sign on the
\* unsigned index with a key and no redeem script succeeds; and build() then
\* succeeds and gives both inputs an unlocking script.  With outputNeeded,
\* build() is asked only when the transaction has an output
ImportThenContinue(t, outputNeeded) ==
  LET unsigned == CHOOSE j \in 1..2 : t.ins[j].script = EmptyScript IN
  /\ EntryIndexes(signatures) = {3 - unsigned}
  /\ \A k \in Keys, hashType \in HashTypes :
       LET s == sign(Self, unsigned - 1, ECKey(k), Undefined, hashType) IN
       /\ s.ok
       /\ (outputNeeded => Len(t.outs) > 0) =>
            LET r == build(s.b, FALSE) IN
            r.ok /\ \A j \in 1..2 : r.ret.ins[j].script # EmptyScript

\* C14 as stated: after fromTransaction on a transaction with one signed input
\* and one input with an empty unlocking script (in either order), the Builder
\* has an entry for the signed index and none for the unsigned index, a
\* following sign on the unsigned index with a key and no redeem script
\* succeeds, and a following build() succeeds and gives both inputs a non-empty
\* unlocking script
C14_AsStated == \A t \in ImportedOneSigned : ImportThenContinue(t, FALSE)

\* C14: the same for a transaction that has at least one output; without an
\* output the entry and the sign call are as stated and build() is not asked
C14_ImportThenContinue == \A t \in ImportedOneSigned : ImportThenContinue(t, TRUE)

\* build() has returned both inputs with a script on a Builder that holds an
\* imported entry (its hash type is none a sign call of the model supplies) and
\* an entry made by sign
C14_Witness ==
  /\ result.op = "build" /\ result.ok
  /\ Len(tx.ins) = 2 /\ EntryIndexes(signatures) = {1, 2}
  /\ \A j \in 1..2 : result.ret.ins[j].script # EmptyScript
  /\ \E j \in 1..2 : signatures[j].hashType \notin {Supplied(h) : h \in HashTypes}
  /\ \E j \in 1..2 : signatures[j].hashType \in {Supplied(h) : h \in HashTypes}

\* the signature chunks of an unlocking script, the wrapped redeem script left out
SigChunksOf(script) == {j \in 1..Len(script.chunks) : IsSigChunk(script.chunks[j])}

\* the only input spends a 2-of-3 multisig redeem script and one cosigner has signed
OneOfTwoSigned ==
  /\ Len(tx.ins) = 1 /\ EntryIndexes(signatures) = {1}
  /\ signatures[1].scriptType = "multisig"
  /\ signatures[1].redeemScript # Undefined
  /\ signatures[1].redeemScript.chunks[1] = NUM(2)
  /\ Len(signatures[1].pubKeys) = 3
  /\ Cardinality(SlotsOf(signatures[1])) = 1

\* C15: for a single input spending a 2-of-3 multisig redeem script that one
\* cosigner only has signed, buildIncomplete() succeeds with a script holding
\* exactly one signature, and the completeness preconditions of build() pass
\* (one metadata entry per input; all of them once there is an output) although
\* fewer than the required 2 signatures are present
C15_ThresholdGap ==
  OneOfTwoSigned =>
    /\ LET r == build(Self, TRUE) IN
       r.ok /\ Cardinality(SigChunksOf(r.ret.ins[1].script)) = 1
    /\ Len(signatures) = Len(tx.ins)
    /\ Len(tx.outs) > 0 => StrictPreconditions(Self)

C15_Witness ==
  /\ OneOfTwoSigned
  /\ Len(tx.outs) > 0
  /\ result.op = "buildIncomplete" /\ result.ok

\* one pay-to-pubkey-hash input, signed, and one output
OnePubKeyHashSigned ==
  /\ Len(tx.ins) = 1 /\ Len(tx.outs) = 1 /\ EntryIndexes(signatures) = {1}
  /\ signatures[1].scriptType = "pubkeyhash"
  /\ signatures[1].redeemScript = Undefined
  /\ Len(signatures[1].pubKeys) = 1
  /\ SlotsOf(signatures[1]) = {<<1, signatures[1].signatures[1]>>}
  /\ signatures[1].signatures[1].by = signatures[1].pubKeys[1].Q

\* C16: for a Builder with one pay-to-pubkey-hash input and one output, signed
\* with key K and hash type H, the extractor run on the input of the transaction
\* build() returns gives the entry with scriptKind PayToPubKeyHash, hash type H,
\* pubKeys [public key of K], signatures [the stored signature] and no redeem
\* script
C16_RoundTrip ==
  OnePubKeyHashSigned =>
    LET r == build(Self, FALSE) IN
    /\ r.ok
    /\ LET e == extractSignature(r.ret.ins[1]) IN
       /\ e.ok
       /\ e.ret = [hashType |-> signatures[1].hashType,
                   pubKeys |-> signatures[1].pubKeys,
                   redeemScript |-> Undefined,
                   scriptType |-> "pubkeyhash",
                   signatures |-> <<signatures[1].signatures[1]>>]

\* the filled slots of an entry
Filled(input) == {i \in 1..Len(input.signatures) : input.signatures[i] # Hole}

\* every filled slot of an entry holds a signature of the slot's public key
Aligned(input) ==
  \A i \in Filled(input) :
    i <= Len(input.pubKeys) /\ input.signatures[i].by = input.pubKeys[i].Q

\* the unlocking script of a pay-to-script-hash MultiSig entry: the placeholder,
\* the signatures of the filled slots in slot order, each once, and the wrapped
\* redeem script
InSlotOrder(input, script) ==
  LET c == script.chunks IN
  /\ Len(c) = Cardinality(Filled(input)) + 2
  /\ c[1] = OP("OP_0")
  /\ c[Len(c)] = ScriptToBuffer(input.redeemScript)
  /\ \A i \in Filled(input) :
       c[1 + Cardinality({k \in Filled(input) : k <= i})] =
         toScriptSignature(input.signatures[i], input.hashType)

\* the position of a signature chunk's signer among the keys of the redeem script
KeyPosition(input, chunk) ==
  CHOOSE i \in 1..Len(input.pubKeys) : input.pubKeys[i].Q = chunk.signature.by

\* the scripts build() and buildIncomplete() assemble for pay-to-script-hash
\* MultiSig entries hold the stored signatures in slot order, which for
\* signatures stored by sign is the order of their public keys in the redeem
\* script; with cosigners 1 and 2 of a 2-of-3 script it is two signatures and
\* the wrapped redeem script
C17_Assembled ==
  \A allowIncomplete \in BOOLEAN :
    LET r == build(Self, allowIncomplete) IN
    r.ok =>
      \A j \in EntryIndexes(signatures) :
        LET input == signatures[j]
            c == r.ret.ins[j].script.chunks IN
        (input.scriptType = "multisig" /\ input.redeemScript # Undefined) =>
          /\ InSlotOrder(input, r.ret.ins[j].script)
          /\ Aligned(input) =>
               \A x, y \in SigChunksOf(r.ret.ins[j].script) :
                 x < y => KeyPosition(input, c[x]) < KeyPosition(input, c[y])
          /\ (Aligned(input) /\ input.redeemScript = RedeemMultisig /\ Filled(input) = {1, 2}) =>
               /\ Len(c) = 4
               /\ c[2].signature.by = 1 /\ c[3].signature.by = 2
               /\ c[4] = ScriptToBuffer(RedeemMultisig)

\* a sign call that returns stores its signature in the slot of the signing key
C17_SlotOfKey ==
  (result'.op = "sign" /\ result'.ok) =>
    \A j \in EntryIndexes(signatures') :
      \A i \in Filled(signatures'[j]) :
        (j \in EntryIndexes(signatures) => i \notin Filled(signatures[j])) =>
          /\ i <= Len(signatures'[j].pubKeys)
          /\ signatures'[j].signatures[i].by = signatures'[j].pubKeys[i].Q

\* C17: for a pay-to-script-hash MultiSig input, whatever the order in which
\* distinct authorised cosigners call sign, the signatures in the unlocking
\* script assembled by build() and buildIncomplete() appear in the order of
\* their public keys in the redeem script, unsigned slots dropped, none
\* duplicated; after cosigners 1 and 2 of a 2-of-3 script have signed, the script
\* holds exactly two signatures followed by the wrapped redeem script
C17_SignatureOrder == [](C17_Assembled) /\ [][C17_SlotOfKey]_vars

\* build() has returned the script of an input that cosigners 1 and 2 signed
C17_Witness ==
  /\ result.op = "build" /\ result.ok
  /\ \E j \in EntryIndexes(signatures) :
       /\ signatures[j].redeemScript = RedeemMultisig
       /\ Aligned(signatures[j]) /\ Filled(signatures[j]) = {1, 2}
       /\ Len(result.ret.ins[j].script.chunks) = 4

\* every element of the metadata table is an entry, and every entry's hash type
\* is SINGLE or SINGLE|ANYONECANPAY
AllSingleBased ==
  /\ \A j \in 1..Len(signatures) : signatures[j] # Undefined
  /\ \A j \in EntryIndexes(signatures) :
       signatures[j].hashType \in {SIGHASH_SINGLE, SIGHASH_SINGLE + SIGHASH_ANYONECANPAY}

\* an entry's hash type is the combination SINGLE|ANYONECANPAY
SingleAnyoneCanPayRecorded ==
  \E j \in EntryIndexes(signatures) :
    signatures[j].hashType = SIGHASH_SINGLE + SIGHASH_ANYONECANPAY

\* C18 as stated: addOutput accepts a new output only if every recorded hash
\* type is exactly SINGLE, so a recorded SINGLE|ANYONECANPAY makes addOutput fail
C18_ExactEquality ==
  \A scriptPubKey \in OutputScripts :
    LET r == addOutput(Self, scriptPubKey, 1) IN
    /\ r.ok => \A j \in EntryIndexes(signatures) : signatures[j].hashType = SIGHASH_SINGLE
    /\ SingleAnyoneCanPayRecorded => ~r.ok

\* C18: the output guard compares the hash type without its ANYONECANPAY flag:
\* addOutput accepts a new output only if every recorded hash type is SINGLE or
\* SINGLE|ANYONECANPAY, and it accepts when every element of the table is such
\* an entry, so a recorded SINGLE|ANYONECANPAY does not make addOutput fail
C18_MaskedEquality ==
  \A scriptPubKey \in OutputScripts :
    LET r == addOutput(Self, scriptPubKey, 1) IN
    /\ r.ok => \A j \in EntryIndexes(signatures) :
                 signatures[j].hashType % 32 = SIGHASH_SINGLE
    /\ AllSingleBased => r.ok /\ Len(r.b.tx.outs) = Len(tx.outs) + 1

\* an output was added after a signature with SINGLE|ANYONECANPAY was stored
C18_Witness ==
  /\ \E j \in EntryIndexes(signatures) :
       /\ signatures[j].hashType = SIGHASH_SINGLE + SIGHASH_ANYONECANPAY
       /\ HasSignature(signatures[j])
  /\ result.op = "addOutput" /\ result.ok

\* the sign calls on an index: any key, any redeem script, the hash types of the
\* model and the one stored at the index
SignCallsAt(index) ==
  Keys \X RedeemScripts \X
    (HashTypes \cup (IF ArrayGet(signatures, index) # Undefined
                     THEN {signatures[index + 1].hashType} ELSE {}))

\* a sign call with a redeem script fails if a previous-output kind is cached
\* and is not pay-to-script-hash, or if the redeem script classifies as
\* pay-to-script-hash or nonstandard; one without fails if the cached kind is
\* pay-to-script-hash
RedeemRulesKept(index, redeemScript, r) ==
  LET cached == ObjGetType(prevOutTypes, index) IN
  /\ (redeemScript # Undefined /\ cached \notin {UndefinedType, "scripthash"}) => ~r.ok
  /\ (redeemScript # Undefined
      /\ classifyOutput(redeemScript) \in {"scripthash", "nonstandard"}) => ~r.ok
  /\ (redeemScript = Undefined /\ cached = "scripthash") => ~r.ok

\* C19 as stated: the rules above, and when sign succeeds the entry has a redeem
\* script if and only if the input's cached previous-output kind is
\* pay-to-script-hash
C19_AsStated ==
  \A index \in SignIndexes : \A a \in SignCallsAt(index) :
    LET r == sign(Self, index, ECKey(a[1]), a[2], a[3]) IN
    /\ RedeemRulesKept(index, a[2], r)
    /\ r.ok => (r.b.signatures[index + 1].redeemScript # Undefined
                 <=> ObjGetType(r.b.prevOutTypes, index) = "scripthash")

\* the rules above; when sign succeeds the entry has a redeem script if and only
\* if the kind the call resolves (the cached kind, or with none cached
\* pay-to-script-hash for a call with a redeem script and pay-to-pubkey-hash for
\* one without) is pay-to-script-hash, and a call that creates the entry caches
\* that kind
C19_Rules ==
  \A index \in SignIndexes : \A a \in SignCallsAt(index) :
    LET r == sign(Self, index, ECKey(a[1]), a[2], a[3])
        resolved == IF ObjGetType(prevOutTypes, index) # UndefinedType
                    THEN ObjGetType(prevOutTypes, index)
                    ELSE IF a[2] # Undefined THEN "scripthash" ELSE "pubkeyhash"
    IN
    /\ RedeemRulesKept(index, a[2], r)
    /\ r.ok =>
         /\ r.b.signatures[index + 1].redeemScript # Undefined <=> resolved = "scripthash"
         /\ ArrayGet(signatures, index) = Undefined =>
              ObjGetType(r.b.prevOutTypes, index) = resolved

\* C19: the pay-to-script-hash rules of sign, with the previous-output kind of
\* the last part read as the kind the call resolves: an entry that was imported
\* has a redeem script while no kind is cached for its input
C19_RedeemRules == [](C19_Rules)

\* a sign call with a redeem script has returned on an input whose cached kind is
\* pay-to-script-hash
C19_Witness ==
  /\ result.op = "sign" /\ result.ok
  /\ \E j \in EntryIndexes(signatures) :
       /\ signatures[j].redeemScript # Undefined
       /\ j <= Len(tx.ins)
       /\ HasSignature(signatures[j])
       /\ ObjGetType(prevOutTypes, j - 1) = "scripthash"

====
